---- MODULE Spec2Model ----
(***************************************************************************)
(* Corvid20 bitmask enums (includes/enums/bitmask_enum.h): the operator    *)
(* suite, the traits and the name-table renderer, with the fixed-string    *)
(* split the name tables are built from.                                   *)
(*                                                                         *)
(* An integer of width w is the set of its set bit positions, a subset of  *)
(* 0..w-1 (bit 0 is the lsb).  Widths are the C++ ones: the underlying     *)
(* type of the enum (8..64 bits, signed or not), int (32 bits), size_t     *)
(* and uint64_t (64 bits).  Text is a sequence of one-character strings.   *)
(***************************************************************************)
EXTENDS Integers, Sequences, FiniteSets, TLC

VARIABLES
  E,      \* the registered enum: [bits, signed, valid, clip, names]
  build,  \* what this build does on undefined behaviour: [shl, oob]
  args,   \* the operands the operations are applied to
  op,     \* the operation applied last ("init": none yet)
  res     \* its result

vars == <<E, build, args, op, res>>

(***************************************************************************)
(* Bounds of the model.                                                    *)
(***************************************************************************)
\* Values are drawn from the patterns over bits 0..MaxLow-1 and the top bit.
MaxLow == 3

(***************************************************************************)
(* Widths of the C++ types.                                                *)
(***************************************************************************)
IntBits == 32
SizeBits == 64

BitsOf(w) == 0 .. (w - 1)

\* The bit positions values are drawn from: the low ones, the sign bit of the
\* type, and the bits around the width of int.
Probe(w) == (0 .. (MaxLow - 1)) \cup {w - 1} \cup ({IntBits - 1, IntBits} \cap BitsOf(w))

Patterns(w) == SUBSET Probe(w)

(***************************************************************************)
(* Integer conversions and integral promotion.                             *)
(***************************************************************************)
\* Conversion of x, of width fromW, to width toW: truncation, or sign- or
\* zero-extension.
Convert(x, fromW, fromSigned, toW) ==
  IF toW <= fromW THEN x \cap BitsOf(toW)
  ELSE IF fromSigned /\ (fromW - 1) \in x THEN x \cup (fromW .. (toW - 1))
  ELSE x

\* The width an operand of T's underlying type has after integral promotion.
PromW(T) == IF T.bits < IntBits THEN IntBits ELSE T.bits

Promote(T, x) == Convert(x, T.bits, T.signed, PromW(T))

\* E(x): an integer converted to the enum, that is to its underlying type.
Cast(T, x) == x \cap BitsOf(T.bits)

\* as_underlying<E>(v)
as_underlying(T, v) == v \cap BitsOf(T.bits)

(***************************************************************************)
(* Traits.                                                                 *)
(***************************************************************************)
valid_bits_v(T) == T.valid

bit_clip_v(T) == T.clip

BitmaskEnum(T) == valid_bits_v(T) # {}

do_max_value(T) == Cast(T, valid_bits_v(T))

(***************************************************************************)
(* Operator overloads.                                                     *)
(***************************************************************************)
deref(T, v) == as_underlying(T, v)

op_or(T, l, r) == Cast(T, Promote(T, deref(T, l)) \cup Promote(T, deref(T, r)))

op_and(T, l, r) == Cast(T, Promote(T, deref(T, l)) \cap Promote(T, deref(T, r)))

op_xor(T, l, r) ==
  LET a == Promote(T, deref(T, l))
      b == Promote(T, deref(T, r))
  IN  Cast(T, (a \ b) \cup (b \ a))

\* A complement that forgets the clip mode.
op_not_unclipped(T, v) == Cast(T, BitsOf(PromW(T)) \ Promote(T, deref(T, v)))

op_not(T, v) ==
  IF bit_clip_v(T) THEN op_xor(T, v, do_max_value(T))
  ELSE Cast(T, BitsOf(PromW(T)) \ Promote(T, deref(T, v)))

op_plus(T, l, r) == op_or(T, l, r)

\* A difference that forgets the complement.
op_minus_nocomplement(T, l, r) == op_and(T, l, r)

op_minus(T, l, r) == op_and(T, l, op_not(T, r))

\* The assignment forms: the value the left operand holds afterwards.
op_or_assign(T, l, r) == op_or(T, l, r)

op_and_assign(T, l, r) == op_and(T, l, r)

op_xor_assign(T, l, r) == op_xor(T, l, r)

op_plus_assign(T, l, r) == op_plus(T, l, r)

op_minus_assign(T, l, r) == op_minus(T, l, r)

(***************************************************************************)
(* Named functions.                                                        *)
(***************************************************************************)
max_value(T) == do_max_value(T)

min_value(T) == {}

\* std::bit_width: the position of the highest set bit, plus one.
bits_length(T) ==
  IF valid_bits_v(T) = {} THEN 0
  ELSE 1 + CHOOSE i \in valid_bits_v(T) : \A j \in valid_bits_v(T) : j <= i

\* static_cast<size_t>(v): through the underlying type.
to_integer_size_t(T, v) == Convert(v, T.bits, T.signed, SizeBits)

\* x + 1 in size_t (modulo 2^64).
Increment(x, w) ==
  IF BitsOf(w) \subseteq x THEN {}
  ELSE LET k == CHOOSE i \in BitsOf(w) \ x : \A j \in BitsOf(w) \ x : i <= j
       IN  (x \ BitsOf(k)) \cup {k}

\* A range length that forgets the + 1.
range_length_noinc(T) == to_integer_size_t(T, max_value(T))

range_length(T) == Increment(to_integer_size_t(T, max_value(T)), SizeBits)

\* A maker that forgets the mask.
make_safely_unmasked(T, u) == Cast(T, u)

make_safely(T, u) == op_and(T, Cast(T, u), max_value(T))

make(T, u) == IF bit_clip_v(T) THEN make_safely(T, u) ELSE Cast(T, u)

set(T, v, m) == op_plus(T, v, m)

set_if(T, v, m, pred) == IF pred THEN op_plus(T, v, m) ELSE v

\* A clear that clears nothing.
clear_noop(T, v, m) == v

clear(T, v, m) == op_minus(T, v, m)

clear_if(T, v, m, pred) == IF pred THEN op_minus(T, v, m) ELSE v

set_to(T, v, m, value) == IF value THEN op_plus(T, v, m) ELSE op_minus(T, v, m)

\* A flip that complements the whole integer.
flip_all(T, v) == Cast(T, BitsOf(T.bits) \ v)

flip(T, v) == op_xor(T, v, max_value(T))

\* 1 << s in int.  A count of the width of int or more, among them the
\* ndx - 1 of ndx = 0 (a size_t), is undefined: the build either takes the
\* count modulo the width (the shift instruction of x86 and ARM) or gives 0.
ShiftLeftOne(B, s) ==
  IF s \in BitsOf(IntBits) THEN {s}
  ELSE IF B.shl = "wrap" THEN {s % IntBits}
  ELSE {}

make_at(T, B, ndx) ==
  make(T, Convert(ShiftLeftOne(B, ndx - 1), IntBits, TRUE, T.bits))

set_at(T, B, v, ndx) == op_plus(T, v, make_at(T, B, ndx))

set_at_if(T, B, v, ndx, pred) == IF pred THEN op_plus(T, v, make_at(T, B, ndx)) ELSE v

clear_at(T, B, v, ndx) == op_minus(T, v, make_at(T, B, ndx))

clear_at_if(T, B, v, ndx, pred) == IF pred THEN op_minus(T, v, make_at(T, B, ndx)) ELSE v

set_at_to(T, B, v, ndx, value) ==
  IF value THEN set_at(T, B, v, ndx) ELSE clear_at(T, B, v, ndx)

has(T, v, m) == op_and(T, v, m) # {}

has_all(T, v, m) == op_and(T, v, m) = m

missing(T, v, m) == ~has_all(T, v, m)

missing_all(T, v, m) == ~has(T, v, m)

(***************************************************************************)
(* Text: fixed strings, their split, the delimiter and the number helper.  *)
(***************************************************************************)
Comma == ","

RECURSIVE SplitFrom(_, _, _)
SplitFrom(s, piece, pieces) ==
  IF s = <<>> THEN Append(pieces, piece)
  ELSE IF Head(s) = Comma THEN SplitFrom(Tail(s), <<>>, Append(pieces, piece))
  ELSE SplitFrom(Tail(s), Append(piece, Head(s)), pieces)

\* A split that drops the empty pieces.
fixed_split_skip_empty(s) == SelectSeq(SplitFrom(s, <<>>, <<>>), LAMBDA p : p # <<>>)

\* strings::fixed_split<S>(): the pieces of S between its commas, in order.
fixed_split(s) == SplitFrom(s, <<>>, <<>>)

\* strings::delim(" + ")
plus == <<" ", "+", " ">>

\* plus.append_skip_first(target, first): the delimiter, except the first time.
append_skip_first(target, first) == IF first THEN target ELSE target \o plus

HexDigits == <<"0", "1", "2", "3", "4", "5", "6", "7", "8", "9", "a", "b", "c", "d", "e", "f">>

Nibble(x, k) ==
  (IF 4 * k \in x THEN 1 ELSE 0) + (IF 4 * k + 1 \in x THEN 2 ELSE 0)
    + (IF 4 * k + 2 \in x THEN 4 ELSE 0) + (IF 4 * k + 3 \in x THEN 8 ELSE 0)

\* strings::append_num<16>(target, x): x in hexadecimal, no prefix, no
\* leading zeros.
append_num_16(target, x) ==
  IF x = {} THEN target \o <<"0">>
  ELSE LET top == CHOOSE k \in 0 .. 15 :
                    Nibble(x, k) # 0 /\ \A j \in (k + 1) .. 15 : Nibble(x, j) = 0
       IN  target \o [j \in 1 .. (top + 1) |-> HexDigits[Nibble(x, top + 1 - j) + 1]]

\* An index below 2^30 as an integer of bits, and back.
IndexBits(n) == {i \in 0 .. 29 : (n \div (2 ^ i)) % 2 = 1}

RECURSIVE BitsIndex(_)
BitsIndex(x) ==
  IF x = {} THEN 0
  ELSE LET i == CHOOSE j \in x : TRUE IN 2 ^ i + BitsIndex(x \ {i})

(***************************************************************************)
(* The name-table renderer.                                                *)
(***************************************************************************)
\* The state of a rendering: the text appended so far, `first`, the working
\* copy of v, the bit pattern each printed name stands for, the residue
\* printed (none, or one), the indices the name table was read at, whether
\* the downward scan ran and whether the rendering trapped.
Rendering(v) ==
  [target |-> <<>>, first |-> TRUE, v |-> v, printed |-> <<>>, hex |-> <<>>,
   reads |-> <<>>, scanned |-> FALSE, trapped |-> FALSE]

\* What an out-of-bounds read of the table yields when it does not trap.
Garbage == <<"?">>

\* names[i] (0-based).  A read at or past the end is undefined: the build
\* reads an empty view, reads a view of whatever lies there, or traps.
NameAt(B, names, i) ==
  IF i < Len(names) THEN names[i + 1]
  ELSE IF B.oob = "garbage" THEN Garbage
  ELSE <<>>

Traps(B, names, i) == i >= Len(names) /\ B.oob = "trap"

\* v & ~m where both are of the underlying type: promoted, complemented
\* and ANDed as int (or wider), then converted back by E(...).
AndNot(T, v, m) ==
  Cast(T, Promote(T, deref(T, v)) \cap (BitsOf(PromW(T)) \ Promote(T, deref(T, m))))

\* plus.append_skip_first, the name, and v with the matched bits removed.
PrintName(st, name, pattern, rest) ==
  [st EXCEPT !.target = append_skip_first(st.target, st.first) \o name,
             !.first = FALSE,
             !.printed = Append(st.printed, pattern),
             !.v = rest]

\* Print residual in hex.
PrintResidual(T, st) ==
  IF ~st.trapped /\ (deref(T, st.v) # {} \/ st.first)
  THEN [st EXCEPT !.target = append_num_16(append_skip_first(st.target, st.first),
                                           deref(T, st.v)),
                  !.first = FALSE,
                  !.hex = <<deref(T, st.v)>>]
  ELSE st

RECURSIVE BitLoop(_, _, _, _, _)
BitLoop(T, B, names, st, ndx) ==
  IF ndx = 0 THEN st
  ELSE LET mask == make_at(T, B, ndx)
           ofs == Len(names) - ndx
           hit == has(T, st.v, mask)
           rd == IF hit THEN [st EXCEPT !.reads = Append(st.reads, ofs)] ELSE st
       IN  IF hit /\ NameAt(B, names, ofs) # <<>>
           THEN BitLoop(T, B, names,
                        PrintName(rd, NameAt(B, names, ofs), {ndx - 1},
                                  AndNot(T, rd.v, mask)),
                        ndx - 1)
           ELSE BitLoop(T, B, names, rd, ndx - 1)

do_bit_append(T, B, v, names) ==
  PrintResidual(T, BitLoop(T, B, names, Rendering(v), Len(names)))

\* all_valid_bits: valid_bits_v<E> as a size_t.
all_valid_bits(T) == Convert(valid_bits_v(T), SizeBits, FALSE, SizeBits)

RECURSIVE ValueLoop(_, _, _, _, _)
ValueLoop(T, B, names, st, ndx) ==
  IF ndx < 0 THEN st
  ELSE LET mask == Cast(T, IndexBits(ndx))
           hit == has_all(T, st.v, mask)
           rd == IF hit THEN [st EXCEPT !.reads = Append(st.reads, ndx)] ELSE st
       IN  IF hit /\ Traps(B, names, ndx) THEN [rd EXCEPT !.trapped = TRUE]
           ELSE IF hit /\ NameAt(B, names, ndx) # <<>>
           THEN LET nx == PrintName(rd, NameAt(B, names, ndx), IndexBits(ndx),
                                    AndNot(T, rd.v, mask))
                IN  IF to_integer_size_t(T, deref(T, nx.v)) \cap all_valid_bits(T) = {}
                    THEN nx
                    ELSE ValueLoop(T, B, names, nx, ndx - 1)
           ELSE ValueLoop(T, B, names, rd, ndx - 1)

\* A rendering that scans even after the direct lookup found a name.
do_value_append_always_scan(T, B, v, names) ==
  LET valid_part == to_integer_size_t(T, deref(T, v)) \cap all_valid_bits(T)
      at == BitsIndex(valid_part)
      st0 == [Rendering(v) EXCEPT !.reads = <<at>>]
  IN  IF Traps(B, names, at) THEN [st0 EXCEPT !.trapped = TRUE]
      ELSE LET st1 == IF NameAt(B, names, at) # <<>>
                      THEN PrintName(st0, NameAt(B, names, at), valid_part,
                                     Cast(T, to_integer_size_t(T, deref(T, v))
                                               \ all_valid_bits(T)))
                      ELSE st0
               st2 == ValueLoop(T, B, names, [st1 EXCEPT !.scanned = TRUE], at)
           IN  PrintResidual(T, st2)

do_value_append(T, B, v, names) ==
  LET valid_part == to_integer_size_t(T, deref(T, v)) \cap all_valid_bits(T)
      at == BitsIndex(valid_part)
      st0 == [Rendering(v) EXCEPT !.reads = <<at>>]
  IN  IF Traps(B, names, at) THEN [st0 EXCEPT !.trapped = TRUE]
      ELSE LET st1 == IF NameAt(B, names, at) # <<>>
                      THEN PrintName(st0, NameAt(B, names, at), valid_part,
                                     Cast(T, to_integer_size_t(T, deref(T, v))
                                               \ all_valid_bits(T)))
                      ELSE st0
               st2 == IF st1.first
                      THEN ValueLoop(T, B, names, [st1 EXCEPT !.scanned = TRUE], at)
                      ELSE st1
           IN  PrintResidual(T, st2)

\* bitmask_enum_names_spec::append
append(T, B, v) ==
  IF Len(T.names) = bits_length(T) THEN do_bit_append(T, B, v, T.names)
  ELSE IF Len(T.names) # 0 THEN do_value_append(T, B, v, T.names)
  ELSE [Rendering(v) EXCEPT !.target = append_num_16(<<>>, deref(T, v)),
                            !.first = FALSE,
                            !.hex = <<deref(T, v)>>]

(***************************************************************************)
(* Registration: the makers of the specs.                                  *)
(***************************************************************************)
\* The valid bits of a list of bit names, msb first: bit N - j for the j-th
\* name (from 1) when it is not empty.
calc_valid_bits_from_bit_names(bit_names) ==
  LET name_array == fixed_split(bit_names)
  IN  {Len(name_array) - j : j \in {k \in 1 .. Len(name_array) : name_array[k] # <<>>}}

\* The valid bits of a list of value names: the OR of the indices, from 1,
\* that have a name.
calc_valid_bits_from_value_names(bit_names) ==
  LET name_array == fixed_split(bit_names)
  IN  UNION {IndexBits(i) : i \in {k \in 1 .. (Len(name_array) - 1) : name_array[k + 1] # <<>>}}

\* make_bitmask_enum_spec<E, validbits, bitclip>(), for an E of the given
\* underlying type.
make_bitmask_enum_spec_bits(bits, signed, validbits, bitclip) ==
  [bits |-> bits, signed |-> signed, valid |-> validbits, clip |-> bitclip,
   names |-> <<>>]

\* make_bitmask_enum_spec<E, bit_names, bitclip>()
make_bitmask_enum_spec(bits, signed, bit_names, bitclip) ==
  [bits |-> bits, signed |-> signed,
   valid |-> calc_valid_bits_from_bit_names(bit_names), clip |-> bitclip,
   names |-> fixed_split(bit_names)]

\* make_bitmask_enum_values_spec<E, bit_names, bitclip>()
make_bitmask_enum_values_spec(bits, signed, bit_names, bitclip) ==
  [bits |-> bits, signed |-> signed,
   valid |-> calc_valid_bits_from_value_names(bit_names), clip |-> bitclip,
   names |-> fixed_split(bit_names)]

(***************************************************************************)
(* The enums and the builds.                                               *)
(***************************************************************************)
NoNames == <<>>

\* An enum with an 8-bit underlying type, registered by its valid bits.
NarrowEnums ==
  [bits : {8}, signed : BOOLEAN, valid : Patterns(8) \ {{}}, clip : BOOLEAN,
   names : {NoNames}]

Builds == [shl : {"wrap", "zero"}, oob : {"empty", "garbage", "trap"}]

DefaultBuild == [shl |-> "wrap", oob |-> "empty"]

(***************************************************************************)
(* The operator suite applied to operands v and m.                         *)
(***************************************************************************)
InitOps ==
  /\ E \in NarrowEnums
  /\ build = DefaultBuild
  /\ args \in [v : Patterns(8), m : Patterns(8)]
  /\ op = "init"
  /\ res = {}

Apply(name, value) ==
  /\ op' = name
  /\ res' = value
  /\ UNCHANGED <<E, build, args>>

MakeSafely == op = "init" /\ Apply("make_safely", make_safely(E, args.v))

Flip == op = "init" /\ Apply("flip", flip(E, args.v))

FlipAgain == op = "flip" /\ Apply("flip_flip", flip(E, res))

Set == op = "init" /\ Apply("set", set(E, args.v, args.m))

Clear == op = "init" /\ Apply("clear", clear(E, args.v, args.m))

ClearAfterSet == op = "set" /\ Apply("set_clear", clear(E, res, args.m))

Minus == op = "init" /\ Apply("minus", op_minus(E, args.v, args.m))

MinusAssign == op = "init" /\ Apply("minus_assign", op_minus_assign(E, args.v, args.m))

NextOps ==
  \/ MakeSafely
  \/ Flip
  \/ FlipAgain
  \/ Set
  \/ Clear
  \/ ClearAfterSet
  \/ Minus
  \/ MinusAssign

SpecOps == InitOps /\ [][NextOps]_vars

(***************************************************************************)
(* A value built up from zero by a sequence of operations.  The operands   *)
(* have only valid bits; make_safely and make take any integer.  args      *)
(* records whether the value the last operation was applied to had only    *)
(* valid bits (valid_in) and whether operator~ or make has been applied    *)
(* (unsafe).                                                               *)
(***************************************************************************)
ValidOperands(T) == {m \in Patterns(T.bits) : m \subseteq valid_bits_v(T)}

\* The enums of a sequence declare one or two valid bits, so that every one
\* has invalid bits among the probed positions.
SeqEnums == {T \in NarrowEnums : Cardinality(valid_bits_v(T)) <= 2}

InitSeq ==
  /\ E \in SeqEnums
  /\ build = DefaultBuild
  /\ args = [valid_in |-> TRUE, unsafe |-> FALSE]
  /\ op = "init"
  /\ res = min_value(E)

Step(name, value, unsafe) ==
  /\ op' = name
  /\ res' = value
  /\ args' = [valid_in |-> res \subseteq valid_bits_v(E),
              unsafe |-> args.unsafe \/ unsafe]
  /\ UNCHANGED <<E, build>>

SeqOr == \E m \in ValidOperands(E) : Step("or", op_or(E, res, m), FALSE)

SeqOrAssign == \E m \in ValidOperands(E) : Step("or_assign", op_or_assign(E, res, m), FALSE)

SeqAnd == \E m \in ValidOperands(E) : Step("and", op_and(E, res, m), FALSE)

SeqAndAssign == \E m \in ValidOperands(E) : Step("and_assign", op_and_assign(E, res, m), FALSE)

SeqXor == \E m \in ValidOperands(E) : Step("xor", op_xor(E, res, m), FALSE)

SeqXorAssign == \E m \in ValidOperands(E) : Step("xor_assign", op_xor_assign(E, res, m), FALSE)

SeqPlus == \E m \in ValidOperands(E) : Step("plus", op_plus(E, res, m), FALSE)

SeqPlusAssign == \E m \in ValidOperands(E) : Step("plus_assign", op_plus_assign(E, res, m), FALSE)

SeqMinus == \E m \in ValidOperands(E) : Step("minus", op_minus(E, res, m), FALSE)

\* The value as the right operand: m - v.
SeqMinusFrom == \E m \in ValidOperands(E) : Step("minus_from", op_minus(E, m, res), FALSE)

SeqMinusAssign ==
  \E m \in ValidOperands(E) : Step("minus_assign", op_minus_assign(E, res, m), FALSE)

SeqSet == \E m \in ValidOperands(E) : Step("set", set(E, res, m), FALSE)

SeqSetIf ==
  \E m \in ValidOperands(E), pred \in BOOLEAN : Step("set_if", set_if(E, res, m, pred), FALSE)

SeqClear == \E m \in ValidOperands(E) : Step("clear", clear(E, res, m), FALSE)

SeqClearIf ==
  \E m \in ValidOperands(E), pred \in BOOLEAN :
    Step("clear_if", clear_if(E, res, m, pred), FALSE)

SeqSetTo ==
  \E m \in ValidOperands(E), value \in BOOLEAN :
    Step("set_to", set_to(E, res, m, value), FALSE)

SeqFlip == Step("flip", flip(E, res), FALSE)

SeqMakeSafely == \E u \in Patterns(E.bits) : Step("make_safely", make_safely(E, u), FALSE)

SeqNot == Step("not", op_not(E, res), TRUE)

SeqMake == \E u \in Patterns(E.bits) : Step("make", make(E, u), TRUE)

NextSeq ==
  \/ SeqOr
  \/ SeqOrAssign
  \/ SeqAnd
  \/ SeqAndAssign
  \/ SeqXor
  \/ SeqXorAssign
  \/ SeqPlus
  \/ SeqPlusAssign
  \/ SeqMinus
  \/ SeqMinusFrom
  \/ SeqMinusAssign
  \/ SeqSet
  \/ SeqSetIf
  \/ SeqClear
  \/ SeqClearIf
  \/ SeqSetTo
  \/ SeqFlip
  \/ SeqMakeSafely
  \/ SeqNot
  \/ SeqMake

SpecSeq == InitSeq /\ [][NextSeq]_vars

(***************************************************************************)
(* The traits of an enum of any width.                                     *)
(***************************************************************************)
Widths == {8, 16, 32, 64}

\* The masks of k contiguous bits from the lsb, and the probe patterns.
ValidMasks(w) == {BitsOf(k) : k \in 1 .. w} \cup (Patterns(w) \ {{}})

WideEnums ==
  UNION {[bits : {w}, signed : BOOLEAN, valid : ValidMasks(w), clip : BOOLEAN,
          names : {NoNames}] : w \in Widths}

InitTraits ==
  /\ E \in WideEnums
  /\ build = DefaultBuild
  /\ args = [v |-> {}, m |-> {}]
  /\ op = "init"
  /\ res = {}

MaxValue == op = "init" /\ Apply("max_value", max_value(E))

BitsLength == op = "init" /\ Apply("bits_length", bits_length(E))

RangeLength == op = "init" /\ Apply("range_length", range_length(E))

NextTraits ==
  \/ MaxValue
  \/ BitsLength
  \/ RangeLength

SpecTraits == InitTraits /\ [][NextTraits]_vars

(***************************************************************************)
(* The indexed operations, for every index up to bits_length<E>().         *)
(***************************************************************************)
InitAt ==
  /\ E \in WideEnums
  /\ build \in {b \in Builds : b.oob = "empty"}
  /\ args \in [v : {{}, BitsOf(E.bits)}, ndx : 1 .. bits_length(E)]
  /\ op = "init"
  /\ res = {}

MakeAt == op = "init" /\ Apply("make_at", make_at(E, build, args.ndx))

SetAt == op = "init" /\ Apply("set_at", set_at(E, build, args.v, args.ndx))

ClearAt == op = "init" /\ Apply("clear_at", clear_at(E, build, args.v, args.ndx))

SetAtTo ==
  /\ op = "init"
  /\ \E value \in BOOLEAN :
       Apply(IF value THEN "set_at_to_true" ELSE "set_at_to_false",
             set_at_to(E, build, args.v, args.ndx, value))

NextAt ==
  \/ MakeAt
  \/ SetAt
  \/ ClearAt
  \/ SetAtTo

SpecAt == InitAt /\ [][NextAt]_vars

(***************************************************************************)
(* Rendering: every spec the makers build from a short name list, the two  *)
(* lists of the documented scenarios, and lists as long as int is wide.    *)
(***************************************************************************)
\* The longest name list enumerated.
MaxNames == 4

Names == {<<>>, <<"a">>, <<"b">>}

RECURSIVE Join(_)
Join(pieces) ==
  IF Len(pieces) = 0 THEN <<>>
  ELSE IF Len(pieces) = 1 THEN pieces[1]
  ELSE pieces[1] \o <<Comma>> \o Join(Tail(pieces))

RedGreenBlue == <<"r", "e", "d", ",", "g", "r", "e", "e", "n", ",", "b", "l", "u", "e">>

AlphaBetaGamma ==
  <<",", "a", "l", "p", "h", "a", ",", "b", "e", "t", "a", ",", "g", "a", "m", "m", "a">>

ShortLists == {Join(t) : t \in UNION {[1 .. n -> Names] : n \in 1 .. MaxNames}}

\* n bit names, all "n".
WideList(n) == Join([j \in 1 .. n |-> <<"n">>])

\* The static_assert of calc_valid_bits_from_bit_names.
NoLeadingComma(bit_names) == bit_names = <<>> \/ Head(bit_names) # Comma

BitNameEnums ==
  {make_bitmask_enum_spec(8, FALSE, s, c) :
     s \in {t \in ShortLists \cup {RedGreenBlue} : NoLeadingComma(t)}, c \in BOOLEAN}
  \cup {make_bitmask_enum_spec(64, FALSE, WideList(n), c) :
           n \in {IntBits, IntBits + 1}, c \in BOOLEAN}

ValueNameEnums ==
  {make_bitmask_enum_values_spec(8, FALSE, s, c) :
     s \in ShortLists \cup {AlphaBetaGamma}, c \in BOOLEAN}

UnnamedEnums ==
  {make_bitmask_enum_spec_bits(8, FALSE, valid, c) :
     valid \in Patterns(8), c \in BOOLEAN}

\* Only a spec with a valid bit makes its enum a bitmask enum.
RenderEnums == {T \in BitNameEnums \cup ValueNameEnums \cup UnnamedEnums : BitmaskEnum(T)}

InitRender ==
  /\ E \in RenderEnums
  /\ build \in Builds
  /\ args \in [v : Patterns(E.bits)]
  /\ op = "init"
  /\ res = {}

AppendBits ==
  /\ op = "init"
  /\ Len(E.names) = bits_length(E)
  /\ Apply("bit_append", append(E, build, args.v))

AppendValue ==
  /\ op = "init"
  /\ Len(E.names) # bits_length(E)
  /\ Len(E.names) # 0
  /\ Apply("value_append", append(E, build, args.v))

AppendNumber ==
  /\ op = "init"
  /\ Len(E.names) = 0
  /\ Apply("num_append", append(E, build, args.v))

NextRender ==
  \/ AppendBits
  \/ AppendValue
  \/ AppendNumber

SpecRender == InitRender /\ [][NextRender]_vars

(***************************************************************************)
(* Splitting: every string of up to MaxLen characters.                     *)
(***************************************************************************)
MaxLen == 5

Alphabet == {"a", "b", Comma}

AbcDef == <<"a", "b", "c", ",", "d", "e", "f">>

InitSplit ==
  /\ E = make_bitmask_enum_spec_bits(8, FALSE, {0}, FALSE)
  /\ build = DefaultBuild
  /\ args \in [s : UNION {[1 .. n -> Alphabet] : n \in 0 .. MaxLen} \cup {AbcDef}]
  /\ op = "init"
  /\ res = {}

FixedSplit == op = "init" /\ Apply("fixed_split", fixed_split(args.s))

\* GetSecondString<S>(): fixed_split<S>()[1], where there is a second piece.
GetSecondString ==
  /\ op = "init"
  /\ Len(fixed_split(args.s)) >= 2
  /\ Apply("second", fixed_split(args.s)[2])

NextSplit ==
  \/ FixedSplit
  \/ GetSecondString

SpecSplit == InitSplit /\ [][NextSplit]_vars

(***************************************************************************)
(* Properties of the operator suite.                                       *)
(***************************************************************************)
SymDiff(a, b) == (a \ b) \cup (b \ a)

InvalidBits(T) == BitsOf(T.bits) \ valid_bits_v(T)

\* C1: make_safely(u) has no bit outside valid_bits_v<E> and is u ANDed with
\* valid_bits_v<E>, for every u of the underlying type, in either clip mode.
C1_MakeSafelyMasks ==
  op = "make_safely" =>
    /\ res \cap InvalidBits(E) = {}
    /\ res = args.v \cap valid_bits_v(E)

\* make_safely has cut invalid bits, the sign bit among them, off a value.
C1_Witness ==
  /\ op = "make_safely"
  /\ (E.bits - 1) \in args.v \cap InvalidBits(E)
  /\ res # {}
  /\ res # args.v

\* C2: flip(flip(v)) = v, and flip(v) differs from v in exactly the valid
\* bits: every bit outside valid_bits_v<E> is unchanged.
C2_FlipInvolution ==
  /\ op = "flip_flip" => res = args.v
  /\ op = "flip" => SymDiff(res, args.v) = valid_bits_v(E)

\* A value with invalid bits has been flipped twice.
C2_Witness ==
  /\ op = "flip_flip"
  /\ args.v \cap InvalidBits(E) # {}
  /\ args.v \cap valid_bits_v(E) # {}
  /\ InvalidBits(E) \ args.v # {}

\* C3 as stated: clear(set(v, m), m) = clear(v, m) in both clip modes, for
\* all v and m, valid or not.
C3_Original == op = "set_clear" => res = clear(E, args.v, args.m)

\* C3 as amended: clear(set(v, m), m) = clear(v, m) for all v and m when the
\* clip mode is not limit, and for all v and every m with only valid bits
\* when it is.
C3_SetClear ==
  (op = "set_clear" /\ (~bit_clip_v(E) \/ args.m \subseteq valid_bits_v(E)))
    => res = clear(E, args.v, args.m)

\* In limit mode, valid bits that v lacked have been set and cleared again.
C3_Witness ==
  /\ op = "set_clear"
  /\ bit_clip_v(E)
  /\ args.m \subseteq valid_bits_v(E)
  /\ args.m \ args.v # {}
  /\ args.v \cap args.m # {}
  /\ res # {}

\* C4 as stated: l - r, clear(l, r) and l -= r are the underlying integer of
\* l ANDed with the full complement of r, in both clip modes, for all l, r.
C4_Original ==
  op \in {"minus", "minus_assign", "clear"} => res = args.v \ args.m

\* C4 as amended: l - r, clear(l, r) and l -= r give the same value; when
\* the clip mode is not limit it is l ANDed with the full complement of r;
\* when it is limit it is l ANDed with (r XOR valid_bits_v<E>), which is l
\* ANDed with the complement of r whenever l and r have only valid bits.
C4_Minus ==
  op \in {"minus", "minus_assign", "clear"} =>
    /\ ~bit_clip_v(E) => res = args.v \ args.m
    /\ bit_clip_v(E) => res = args.v \cap SymDiff(args.m, valid_bits_v(E))
    /\ (args.v \subseteq valid_bits_v(E) /\ args.m \subseteq valid_bits_v(E))
         => res = args.v \ args.m

\* In limit mode a bit of l outside the valid bits, set in r too, has
\* survived the difference.
C4_Witness ==
  /\ op = "minus"
  /\ bit_clip_v(E)
  /\ res \cap args.m \cap InvalidBits(E) # {}
  /\ args.v \cap args.m \cap valid_bits_v(E) # {}

(***************************************************************************)
(* Properties of the traits.                                               *)
(***************************************************************************)
\* The values of E with no bit outside valid_bits_v<E>.
ValidValues(T) == {x \in SUBSET BitsOf(T.bits) : x \subseteq valid_bits_v(T)}

\* A count below 2^30 as a size_t.
NatToBits(n) == {i \in 0 .. 29 : (n \div (2 ^ i)) % 2 = 1}

\* 2^k as a size_t (modulo 2^64).
PowerOfTwo(k) == IF k < SizeBits THEN {k} ELSE {}

Contiguous(T) == valid_bits_v(T) = BitsOf(bits_length(T))

NegativeMax(T) == T.signed /\ (T.bits - 1) \in max_value(T)

\* C5: range_length is the number of values of E with no bit outside
\* valid_bits_v<E>, that is max_value + 1 as an unsigned count (modulo
\* 2^64).  Stated for the enums that meet the documented prerequisite, valid
\* bits contiguous from the lsb.
C5_RangeLengthIsCount ==
  (op = "range_length" /\ Contiguous(E)) =>
    /\ res = PowerOfTwo(Cardinality(valid_bits_v(E)))
    /\ E.bits = 8 => res = NatToBits(Cardinality(ValidValues(E)))

\* What holds of range_length: for an enum whose valid bits are contiguous
\* from the lsb and whose max_value is not negative it is the number of
\* values with no bit outside valid_bits_v<E>, modulo 2^64 (8 for 0b111);
\* for every enum it is 0 exactly when max_value converted to size_t (sign
\* extended when negative) is the maximum of size_t.
RangeLengthUnsigned ==
  op = "range_length" =>
    /\ (Contiguous(E) /\ ~NegativeMax(E)) =>
         /\ res = PowerOfTwo(Cardinality(valid_bits_v(E)))
         /\ E.bits = 8 => res = NatToBits(Cardinality(ValidValues(E)))
    /\ res = {} <=> to_integer_size_t(E, max_value(E)) = BitsOf(SizeBits)
    /\ valid_bits_v(E) = BitsOf(3) => res = {3}

(***************************************************************************)
(* Properties of the renderer.                                             *)
(***************************************************************************)
Rendered == op \in {"bit_append", "value_append", "num_append"}

RECURSIVE OrAll(_)
OrAll(patterns) ==
  IF patterns = <<>> THEN {} ELSE Head(patterns) \cup OrAll(Tail(patterns))

\* No step of the rendering was undefined: every read of the name table was
\* within it, and every shift of make_at was by less than the width of int.
Defined ==
  /\ \A k \in 1 .. Len(res.reads) : res.reads[k] < Len(E.names)
  /\ Len(E.names) <= IntBits

\* C6: rendering appends at least one token and loses no bit: the OR of the
\* bit patterns of the names printed and of the residue printed is v, for
\* every v, in the three modes.  Stated of the renderings no step of which
\* is undefined.
C6_RenderLosesNoBit ==
  (Rendered /\ Defined) =>
    /\ ~res.trapped
    /\ Len(res.printed) + Len(res.hex) >= 1
    /\ res.target # <<>>
    /\ OrAll(res.printed) \cup OrAll(res.hex) = deref(E, args.v)

\* What holds of the three modes: the claim, for a name list shorter than int
\* is wide, of a rendering that makes no read past the end of the table.
RenderWithinTable ==
  (Rendered /\ Defined /\ Len(E.names) < IntBits) =>
    /\ ~res.trapped
    /\ Len(res.printed) + Len(res.hex) >= 1
    /\ res.target # <<>>
    /\ OrAll(res.printed) \cup OrAll(res.hex) = deref(E, args.v)

\* The bits of v that have a name, from the msb down, as the bit names are
\* listed.
RECURSIVE NamedBits(_, _, _)
NamedBits(names, v, ndx) ==
  IF ndx = 0 THEN <<>>
  ELSE IF (ndx - 1) \in v /\ names[Len(names) - ndx + 1] # <<>>
       THEN <<ndx - 1>> \o NamedBits(names, v, ndx - 1)
       ELSE NamedBits(names, v, ndx - 1)

RECURSIVE JoinPlus(_)
JoinPlus(pieces) ==
  IF Len(pieces) = 0 THEN <<>>
  ELSE IF Len(pieces) = 1 THEN pieces[1]
  ELSE pieces[1] \o <<" ", "+", " ">> \o JoinPlus(Tail(pieces))

\* The text the per-bit mode is to produce for v.
BitText(names, v) ==
  LET bits == NamedBits(names, v, Len(names))
      rest == v \ {bits[k] : k \in 1 .. Len(bits)}
      texts == [k \in 1 .. Len(bits) |-> names[Len(names) - bits[k]]]
  IN  JoinPlus(IF rest # {} \/ Len(bits) = 0
               THEN Append(texts, append_num_16(<<>>, rest))
               ELSE texts)

BitRendering ==
  LET bits == NamedBits(E.names, args.v, Len(E.names))
      rest == args.v \ {bits[k] : k \in 1 .. Len(bits)}
  IN  /\ res.printed = [k \in 1 .. Len(bits) |-> {bits[k]}]
      /\ res.hex = (IF rest # {} \/ Len(bits) = 0 THEN <<rest>> ELSE <<>>)
      /\ res.target = BitText(E.names, args.v)

red_blue == <<"r", "e", "d", " ", "+", " ", "b", "l", "u", "e">>

\* C7: in per-bit mode the names of the set, named bits are printed from the
\* msb down, joined by " + ", and the residue follows iff a bit of v was not
\* consumed by a printed name or no name was printed; "red,green,blue" with
\* red and blue set gives "red + blue", and with bit 3 too "red + blue + 8".
\* Stated of the renderings no step of which is undefined.
C7_BitRendering ==
  (op = "bit_append" /\ Defined) =>
    /\ BitRendering
    /\ (E.names = fixed_split(RedGreenBlue) /\ args.v = {0, 2}) => res.target = red_blue
    /\ (E.names = fixed_split(RedGreenBlue) /\ args.v = {0, 2, 3})
         => res.target = red_blue \o <<" ", "+", " ", "8">>

\* What holds of the per-bit mode: the claim, for a name list shorter than
\* int is wide.
BitRenderingWithinInt ==
  (op = "bit_append" /\ Len(E.names) < IntBits) =>
    /\ BitRendering
    /\ (E.names = fixed_split(RedGreenBlue) /\ args.v = {0, 2}) => res.target = red_blue
    /\ (E.names = fixed_split(RedGreenBlue) /\ args.v = {0, 2, 3})
         => res.target = red_blue \o <<" ", "+", " ", "8">>

gamma == <<"g", "a", "m", "m", "a">>

\* The index of the direct lookup, and whether the table has a name there.
DirectIndex == BitsIndex(args.v \cap valid_bits_v(E))

DirectNamed == DirectIndex < Len(E.names) /\ E.names[DirectIndex + 1] # <<>>

\* C8: in per-combination mode, when the name at index v & valid_bits_v<E>
\* is not empty, exactly that name is printed, followed by " + " and the
\* hexadecimal of the bits of v outside valid_bits_v<E> only when there are
\* such bits; the downward scan runs only when the direct lookup found no
\* name; ",alpha,beta,gamma" renders 3 as "gamma".
C8_DirectLookup ==
  op = "value_append" =>
    /\ DirectNamed =>
         /\ ~res.trapped
         /\ res.printed = <<args.v \cap valid_bits_v(E)>>
         /\ res.reads = <<DirectIndex>>
         /\ res.target =
              E.names[DirectIndex + 1]
                \o (IF args.v \ valid_bits_v(E) # {}
                    THEN <<" ", "+", " ">> \o append_num_16(<<>>, args.v \ valid_bits_v(E))
                    ELSE <<>>)
         /\ res.hex = (IF args.v \ valid_bits_v(E) # {}
                       THEN <<args.v \ valid_bits_v(E)>> ELSE <<>>)
    /\ res.scanned => ~DirectNamed
    /\ (E.names = fixed_split(AlphaBetaGamma) /\ args.v = {0, 1}) => res.target = gamma

\* A value with a named valid part and bits outside the valid bits has been
\* rendered as its name and the residue.
C8_Witness ==
  /\ op = "value_append"
  /\ DirectNamed
  /\ DirectIndex # 0
  /\ Len(res.hex) = 1
  /\ Len(res.printed) = 1

(***************************************************************************)
(* Properties of the split.                                                *)
(***************************************************************************)
Commas(s) == Cardinality({i \in 1 .. Len(s) : s[i] = Comma})

abc == <<"a", "b", "c">>

def == <<"d", "e", "f">>

\* C9: fixed_split yields commas + 1 pieces, in order, none with a comma,
\* empty ones for adjacent, leading and trailing commas, which joined by
\* commas are the string again; "abc,def" gives "abc" then "def".
C9_SplitPieces ==
  /\ op = "fixed_split" =>
       /\ Len(res) = Commas(args.s) + 1
       /\ \A k \in 1 .. Len(res) : Commas(res[k]) = 0
       /\ Join(res) = args.s
       /\ args.s = AbcDef => res = <<abc, def>>
  /\ (op = "second" /\ args.s = AbcDef) => res = def

\* A string with a leading, a trailing and two adjacent commas has been
\* split, into empty pieces and one that is not.
C9_Witness ==
  /\ op = "fixed_split"
  /\ Len(args.s) >= 4
  /\ Head(args.s) = Comma
  /\ args.s[Len(args.s)] = Comma
  /\ \E i \in 1 .. (Len(args.s) - 1) : args.s[i] = Comma /\ args.s[i + 1] = Comma
  /\ \E k \in 1 .. Len(res) : res[k] # <<>>
  /\ res[1] = <<>>

(***************************************************************************)
(* Properties of the indexed operations.                                   *)
(***************************************************************************)
\* C10: for 1 <= ndx <= bits_length<E>(), make_at(ndx) is the value with
\* exactly the bit ndx - 1 set, set_at(v, ndx) sets and clear_at(v, ndx)
\* clears exactly that bit of v.  Stated for the enums and values within the
\* documented contract: valid bits contiguous from the lsb, and in limit
\* mode a v with only valid bits.
C10_MakeAtSingleBit ==
  (Contiguous(E) /\ (bit_clip_v(E) => args.v \subseteq valid_bits_v(E))) =>
    /\ op = "make_at" => res = {args.ndx - 1}
    /\ op \in {"set_at", "set_at_to_true"} => res = args.v \cup {args.ndx - 1}
    /\ op \in {"clear_at", "set_at_to_false"} => res = args.v \ {args.ndx - 1}

\* What holds of make_at: the claim for every index up to the width of int.
MakeAtWithinInt ==
  (Contiguous(E) /\ (bit_clip_v(E) => args.v \subseteq valid_bits_v(E))
     /\ (args.ndx < IntBits \/ E.bits <= IntBits)) =>
    /\ op = "make_at" => res = {args.ndx - 1}
    /\ op \in {"set_at", "set_at_to_true"} => res = args.v \cup {args.ndx - 1}
    /\ op \in {"clear_at", "set_at_to_false"} => res = args.v \ {args.ndx - 1}

(***************************************************************************)
(* Properties of a sequence of operations.                                 *)
(***************************************************************************)
\* C11: from zero, a sequence of |, &, ^, +, -, their assignment forms, set,
\* set_if, clear, clear_if, set_to, flip and make_safely with valid operands
\* leaves no bit outside valid_bits_v<E>; in limit mode that also holds with
\* operator~ and make(u) in the sequence; and operator~ is the only operator
\* that sets an invalid bit from valid inputs: not in limit mode, it sets
\* every one of them.
C11_StaysValid ==
  /\ (~args.unsafe \/ bit_clip_v(E)) => res \cap InvalidBits(E) = {}
  /\ (args.valid_in /\ op \notin {"init", "not", "make"}) => res \cap InvalidBits(E) = {}
  /\ (args.valid_in /\ op = "not" /\ ~bit_clip_v(E)) => res \cap InvalidBits(E) = InvalidBits(E)

\* In limit mode a value that went through operator~ and make has had bits
\* cleared from it and still holds valid bits.
C11_Witness ==
  /\ op = "minus"
  /\ bit_clip_v(E)
  /\ args.unsafe
  /\ InvalidBits(E) \cap Probe(E.bits) # {}
  /\ res # {}
  /\ res # valid_bits_v(E)

(***************************************************************************)
(* Properties of the reads of the name table in per-combination mode.      *)
(***************************************************************************)
\* C12: for every enum made by make_bitmask_enum_values_spec from a list of
\* N names and every value v, each index at which the per-combination
\* rendering of v reads the name table (the direct lookup and the downward
\* scan) is less than N.
C12_ReadsWithinTable ==
  op = "value_append" =>
    \A k \in 1 .. Len(res.reads) : res.reads[k] < Len(E.names)

\* The reads stay within the table when the table has an entry at index
\* valid_bits_v<E>, the greatest index a value can select.
ReadsWithinFullTable ==
  (op = "value_append" /\ BitsIndex(valid_bits_v(E)) < Len(E.names)) =>
    /\ ~res.trapped
    /\ \A k \in 1 .. Len(res.reads) : res.reads[k] < Len(E.names)

====
